---- MODULE Spec2Model ----
(***************************************************************************)
(* Model of the DCS OPC UA client (src/src/main.rs).                       *)
(*                                                                         *)
(* main reads two environment variables, builds a client, connects to the  *)
(* endpoint, calls subscribe_to_values and then either hands the session   *)
(* to the blocking Session::run or prints a failure message.  The data     *)
(* change callback prints a header and calls print_value for every item.   *)
(* send_kafka is a public function that main never calls.                  *)
(*                                                                         *)
(* Strings are sequences of one-character strings; console lines are       *)
(* sequences of text fragments, so formatting is modelled by what it       *)
(* writes.  The OPC UA server, the environment and the Kafka broker are    *)
(* the nondeterministic inputs.                                            *)
(***************************************************************************)
EXTENDS Integers, Sequences, FiniteSets, TLC

\* ---------------------------------------------------------------- bounds
MaxTagLen == 3      \* longest MONITORED_TAGS string drawn from the environment
MaxItems  == 2      \* most monitored items published over the run, in all notifications

\* ------------------------------------------------------------- alphabet
Whitespace == {" "}
Alphabet   == {"A", "B", " ", ","}

RECURSIVE StringsUpTo(_)
StringsUpTo(n) ==
    IF n = 0 THEN {<<>>}
    ELSE LET shorter == StringsUpTo(n - 1)
         IN  shorter \cup {Append(s, c) : s \in {t \in shorter : Len(t) = n - 1}, c \in Alphabet}

\* Option<T>
None    == [some |-> FALSE]
Some(x) == [some |-> TRUE, val |-> x]

\* Result<T, StatusCode>
Ok(x)  == [ok |-> TRUE, val |-> x]
Err(e) == [ok |-> FALSE, err |-> e]

\* ------------------------------------------------------------- parsing
\* str::split(','): the segments between commas; the empty string has one
\* (empty) segment, and a leading, trailing or doubled comma gives an empty one.
RECURSIVE Split(_)
Split(s) ==
    IF \A i \in 1..Len(s) : s[i] # ","
    THEN <<s>>
    ELSE LET i == CHOOSE k \in 1..Len(s) : s[k] = "," /\ \A j \in 1..(k - 1) : s[j] # ","
         IN  <<SubSeq(s, 1, i - 1)>> \o Split(SubSeq(s, i + 1, Len(s)))

\* str::trim(): drops leading and trailing whitespace, keeps interior whitespace.
RECURSIVE TrimStart(_)
TrimStart(s) ==
    IF s # <<>> /\ Head(s) \in Whitespace THEN TrimStart(Tail(s)) ELSE s

RECURSIVE TrimEnd(_)
TrimEnd(s) ==
    IF s # <<>> /\ s[Len(s)] \in Whitespace THEN TrimEnd(SubSeq(s, 1, Len(s) - 1)) ELSE s

\* A trim that forgets the trailing whitespace.
TrimLeadingOnly(s) == TrimStart(s)

Trim(s) == TrimEnd(TrimStart(s))

\* monitored_tags.split(',').map(|tags| tags.trim().to_string()).collect()
ParseTags(s) == [i \in 1..Len(Split(s)) |-> Trim(Split(s)[i])]

\* NodeId::new(2, v)
NamespaceIndex == 2
NodeId(v) == [namespace |-> NamespaceIndex, identifier |-> v]

\* A request list that drops the tags it has already seen.
RECURSIVE Dedup(_)
Dedup(tags) ==
    IF tags = <<>> THEN <<>>
    ELSE LET front == Dedup(SubSeq(tags, 1, Len(tags) - 1))
             last  == tags[Len(tags)]
         IN  IF \E i \in 1..Len(front) : front[i] = last THEN front ELSE Append(front, last)

ItemsToCreateDeduplicated(tags) ==
    [i \in 1..Len(Dedup(tags)) |-> [node_id |-> NodeId(Dedup(tags)[i])]]

\* monitored_tags_list.iter().map(|v| NodeId::new(2, v.clone()).into()).collect()
ItemsToCreate(tags) == [i \in 1..Len(tags) |-> [node_id |-> NodeId(tags[i])]]

\* ---------------------------------------------------------- formatting
\* Display for NodeId with a string identifier: ns=<namespace>;s=<identifier>
FmtNodeId(n) == <<"ns=", ToString(n.namespace), ";s=">> \o n.identifier

\* {:?} of a Variant: the variant's name around the payload
FmtDebugVariant(v) == <<v.type, "(", ToString(v.v), ")">>

\* {:?} of an Option<Variant>
FmtDebugOption(o) ==
    IF o.some THEN <<"Some(">> \o FmtDebugVariant(o.val) \o <<")">> ELSE <<"None">>

\* {:?} of a String: the text between double quotes
FmtDebugString(s) == <<"\"">> \o s \o <<"\"">>

\* {:?} of a Vec<String>
RECURSIVE FmtDebugList(_)
FmtDebugList(l) ==
    IF l = <<>> THEN <<>>
    ELSE FmtDebugString(Head(l)) \o (IF Len(l) > 1 THEN <<", ">> ELSE <<>>) \o FmtDebugList(Tail(l))

FmtDebugVec(l) == <<"[">> \o FmtDebugList(l) \o <<"]">>

\* ------------------------------------------------------ server's values
Variants    == {[type |-> "Int32", v |-> 42]}
BadStatuses == {"BadNoData"}
SetupErrors == {"BadTooManySubscriptions"}
ItemResults == {"Good", "BadNodeIdUnknown"}

\* A MonitoredItem as the callback sees it: the node it monitors and its last
\* DataValue, whose value and status are both optional.
MonitoredItems(nodes) ==
    [node_id : nodes,
     value   : {None} \cup {Some(v) : v \in Variants},
     status  : {None} \cup {Some(c) : c \in BadStatuses}]

RECURSIVE SeqsUpTo(_, _)
SeqsUpTo(S, n) ==
    IF n = 0 THEN {<<>>}
    ELSE LET shorter == SeqsUpTo(S, n - 1)
         IN  shorter \cup {Append(q, x) : q \in {t \in shorter : Len(t) = n - 1}, x \in S}

\* ------------------------------------------------------------ print_value
\* The line print_value writes, or a panic when it unwraps an absent status.
PrintValue(item) ==
    IF item.value.some
    THEN [panic |-> FALSE,
          line  |-> <<"Item \"">> \o FmtNodeId(item.node_id) \o <<"\", Value = ">>
                    \o FmtDebugVariant(item.value.val)]
    ELSE IF item.status.some
         THEN [panic |-> FALSE,
               line  |-> <<"Item \"">> \o FmtNodeId(item.node_id)
                         \o <<"\", Value not found, error: ", item.status.val>>]
         ELSE [panic |-> TRUE, line |-> <<>>]

\* changed_monitored_items.iter().for_each(|item| print_value(item)):
\* the lines written before the first panic, and whether one happened.
RECURSIVE ForEachPrint(_)
ForEachPrint(batch) ==
    IF batch = <<>> THEN [panic |-> FALSE, lines |-> <<>>]
    ELSE LET r == PrintValue(Head(batch))
         IN  IF r.panic THEN [panic |-> TRUE, lines |-> <<>>]
             ELSE LET rest == ForEachPrint(Tail(batch))
                  IN  [panic |-> rest.panic, lines |-> <<r.line>> \o rest.lines]

Header == <<"Data change from server:">>

\* The data change callback: the header, then every item.
Callback(batch) ==
    LET r == ForEachPrint(batch)
    IN  [panic |-> r.panic, lines |-> <<Header>> \o r.lines]

\* -------------------------------------------------------------- send_kafka
\* write!(&mut buf, "{:?}", item.last_value().value)
KafkaPayload(item) == FmtDebugOption(item.value)

KafkaRecord(item) ==
    [key |-> "start_kanban", value |-> KafkaPayload(item), topic |-> "pss", partition |-> 1]

\* ------------------------------------------------------------------ state
VARIABLES
    env,                 \* the process environment after dotenv_override
    pc,                  \* main's position
    opcua_host,          \* main's local
    monitored_tags,      \* main's local, then subscribe_to_values' parameter
    out,                 \* standard output, a sequence of lines
    calls,               \* the calls made on the OPC UA client, in order
    lockHeld,            \* the session's write guard is alive
    lockCount,           \* how often session.write() was taken
    subscription_id,     \* subscribe_to_values' local
    monitored_tags_list, \* subscribe_to_values' local
    items_to_create,     \* subscribe_to_values' local
    created,             \* the server's per-item results of create_monitored_items
    result,              \* what subscribe_to_values returned
    runState,            \* the run loop: NotStarted, Running, Terminated
    delivered,           \* the batches the run loop handed to the callback
    kpc, kbroker, kitem, \* send_kafka's position and arguments
    ksent                \* the records the Kafka producer accepted

mainVars  == <<env, pc, opcua_host, monitored_tags, out, calls, lockHeld, lockCount,
               subscription_id, monitored_tags_list, items_to_create, created, result,
               runState, delivered>>
kafkaVars == <<kpc, kbroker, kitem, ksent>>
vars      == <<mainVars, kafkaVars>>

Envs == [server : {None, Some(<<"u">>)},
         tags   : {None} \cup {Some(s) : s \in StringsUpTo(MaxTagLen)}]

InitMain ==
    /\ pc = "start"
    /\ opcua_host = None
    /\ monitored_tags = None
    /\ out = <<>>
    /\ calls = <<>>
    /\ lockHeld = FALSE
    /\ lockCount = 0
    /\ subscription_id = None
    /\ monitored_tags_list = None
    /\ items_to_create = None
    /\ created = None
    /\ result = None
    /\ runState = "NotStarted"
    /\ delivered = <<>>

InitKafkaIdle ==
    /\ kpc = "idle"
    /\ kbroker = None
    /\ kitem = None
    /\ ksent = <<>>

Init ==
    /\ env \in Envs
    /\ InitMain
    /\ InitKafkaIdle

\* ------------------------------------------------------------------- main
\* A panic (unwrap of an absent value) ends the process.
Abort ==
    /\ pc' = "aborted"
    /\ lockHeld' = FALSE

\* let opcua_host: &str = &var("OPCUA_SERVER").unwrap();
ReadServer ==
    /\ pc = "start"
    /\ IF env.server.some
       THEN /\ opcua_host' = env.server
            /\ pc' = "read_tags"
            /\ UNCHANGED lockHeld
       ELSE /\ Abort
            /\ UNCHANGED opcua_host
    /\ UNCHANGED <<env, monitored_tags, out, calls, lockCount, subscription_id,
                   monitored_tags_list, items_to_create, created, result, runState,
                   delivered, kafkaVars>>

\* A read of MONITORED_TAGS that falls back to the empty string.
ReadTagsOrDefault ==
    /\ pc = "read_tags"
    /\ monitored_tags' = (IF env.tags.some THEN env.tags ELSE Some(<<>>))
    /\ pc' = "print_tags"
    /\ UNCHANGED <<env, opcua_host, out, calls, lockHeld, lockCount, subscription_id,
                   monitored_tags_list, items_to_create, created, result, runState,
                   delivered, kafkaVars>>

\* let monitored_tags = var("MONITORED_TAGS").unwrap();
ReadTags ==
    /\ pc = "read_tags"
    /\ IF env.tags.some
       THEN /\ monitored_tags' = env.tags
            /\ pc' = "print_tags"
            /\ UNCHANGED lockHeld
       ELSE /\ Abort
            /\ UNCHANGED monitored_tags
    /\ UNCHANGED <<env, opcua_host, out, calls, lockCount, subscription_id,
                   monitored_tags_list, items_to_create, created, result, runState,
                   delivered, kafkaVars>>

\* println!("OPC UA tags: {:?}", monitored_tags);
PrintTags ==
    /\ pc = "print_tags"
    /\ out' = Append(out, <<"OPC UA tags: ">> \o FmtDebugString(monitored_tags.val))
    /\ pc' = "build_client"
    /\ UNCHANGED <<env, opcua_host, monitored_tags, calls, lockHeld, lockCount,
                   subscription_id, monitored_tags_list, items_to_create, created, result,
                   runState, delivered, kafkaVars>>

\* ClientBuilder::new()...client().unwrap(): the builder may refuse the configuration.
BuildClient ==
    /\ pc = "build_client"
    /\ \E built \in BOOLEAN :
          IF built THEN pc' = "connect" /\ UNCHANGED lockHeld ELSE Abort
    /\ UNCHANGED <<env, opcua_host, monitored_tags, out, calls, lockCount,
                   subscription_id, monitored_tags_list, items_to_create, created, result,
                   runState, delivered, kafkaVars>>

\* client.connect_to_endpoint(endpoint, IdentityToken::Anonymous).unwrap()
Connect ==
    /\ pc = "connect"
    /\ calls' = Append(calls, [op |-> "connect_to_endpoint", url |-> opcua_host.val,
                               policy |-> "None", mode |-> "None"])
    /\ \E connected \in BOOLEAN :
          IF connected THEN pc' = "sub_lock" /\ UNCHANGED lockHeld ELSE Abort
    /\ UNCHANGED <<env, opcua_host, monitored_tags, out, lockCount,
                   subscription_id, monitored_tags_list, items_to_create, created, result,
                   runState, delivered, kafkaVars>>

\* ---------------------------------------------------- subscribe_to_values
\* let session = session.write();
SubLock ==
    /\ pc = "sub_lock"
    /\ ~lockHeld
    /\ lockHeld' = TRUE
    /\ lockCount' = lockCount + 1
    /\ pc' = "sub_create"
    /\ UNCHANGED <<env, opcua_host, monitored_tags, out, calls, subscription_id,
                   monitored_tags_list, items_to_create, created, result, runState,
                   delivered, kafkaVars>>

\* A return that leaks the write guard.
ReturnKeepingGuard(r) ==
    /\ result' = Some(r)
    /\ UNCHANGED lockHeld
    /\ pc' = "branch"

\* The guard is dropped when subscribe_to_values returns, by `?` or at its end.
Return(r) ==
    /\ result' = Some(r)
    /\ lockHeld' = FALSE
    /\ pc' = "branch"

\* let subscription_id = session.create_subscription(0.0, 3, 0, 0, 0, true, callback)?;
CreateSubscription ==
    /\ pc = "sub_create"
    /\ calls' = Append(calls, [op |-> "create_subscription"])
    /\ \E r \in {Ok(1)} \cup {Err(e) : e \in SetupErrors} :
          IF r.ok
          THEN /\ subscription_id' = Some(r.val)
               /\ pc' = "sub_parse"
               /\ UNCHANGED <<result, lockHeld>>
          ELSE /\ Return(Err(r.err))
               /\ UNCHANGED subscription_id
    /\ UNCHANGED <<env, opcua_host, monitored_tags, out, lockCount,
                   monitored_tags_list, items_to_create, created, runState,
                   delivered, kafkaVars>>

\* let monitored_tags_list: Vec<String> = monitored_tags.split(',')...collect();
\* println!("Monitored tags: {:?}", monitored_tags_list);
ParseAndPrint ==
    /\ pc = "sub_parse"
    /\ monitored_tags_list' = Some(ParseTags(monitored_tags.val))
    /\ out' = Append(out, <<"Monitored tags: ">> \o FmtDebugVec(ParseTags(monitored_tags.val)))
    /\ pc' = "sub_build"
    /\ UNCHANGED <<env, opcua_host, monitored_tags, calls, lockHeld, lockCount,
                   subscription_id, items_to_create, created, result, runState,
                   delivered, kafkaVars>>

\* let items_to_create: Vec<MonitoredItemCreateRequest> = ...collect();
BuildItems ==
    /\ pc = "sub_build"
    /\ items_to_create' = Some(ItemsToCreate(monitored_tags_list.val))
    /\ pc' = "sub_items"
    /\ UNCHANGED <<env, opcua_host, monitored_tags, out, calls, lockHeld, lockCount,
                   subscription_id, monitored_tags_list, created, result, runState,
                   delivered, kafkaVars>>

\* What the server answers to a CreateMonitoredItems request: the service fails as
\* a whole, or it succeeds with one result per requested item.
ItemsResponses(reqs) ==
    {Err(e) : e \in SetupErrors} \cup {Ok(rs) : rs \in [1..Len(reqs) -> ItemResults]}

\* let _ = session.create_monitored_items(subscription_id, Both, &items_to_create)?;
\* Ok(())
\* Only a failure of the call is propagated; the per-item results are dropped.
ReturnOfItems(r) == IF r.ok THEN Ok("unit") ELSE Err(r.err)

CreateMonitoredItems ==
    /\ pc = "sub_items"
    /\ calls' = Append(calls, [op |-> "create_monitored_items",
                               subscription_id |-> subscription_id.val,
                               items |-> items_to_create.val])
    /\ \E r \in ItemsResponses(items_to_create.val) :
          /\ created' = Some(r)
          /\ Return(ReturnOfItems(r))
    /\ UNCHANGED <<env, opcua_host, monitored_tags, out, lockCount, subscription_id,
                   monitored_tags_list, items_to_create, runState, delivered, kafkaVars>>

\* A branch that starts the run loop whatever subscribe_to_values returned.
BranchTargetAlwaysRun(r) == "run"

\* ------------------------------------------------------------ main, again
\* if subscribe_to_values(session.clone(), monitored_tags).is_ok() { ... } else { ... }
BranchTarget(r) == IF r.ok THEN "run" ELSE "print_err"

Branch ==
    /\ pc = "branch"
    /\ pc' = BranchTarget(result.val)
    /\ UNCHANGED <<env, opcua_host, monitored_tags, out, calls, lockHeld, lockCount,
                   subscription_id, monitored_tags_list, items_to_create, created, result,
                   runState, delivered, kafkaVars>>

\* println!("Error creating subscription");
PrintError ==
    /\ pc = "print_err"
    /\ out' = Append(out, <<"Error creating subscription">>)
    /\ pc' = "done"
    /\ UNCHANGED <<env, opcua_host, monitored_tags, calls, lockHeld, lockCount,
                   subscription_id, monitored_tags_list, items_to_create, created, result,
                   runState, delivered, kafkaVars>>

\* Session::run(session);
RunStart ==
    /\ pc = "run"
    /\ calls' = Append(calls, [op |-> "run"])
    /\ runState' = "Running"
    /\ pc' = "running"
    /\ UNCHANGED <<env, opcua_host, monitored_tags, out, lockHeld, lockCount,
                   subscription_id, monitored_tags_list, items_to_create, created, result,
                   delivered, kafkaVars>>

\* The nodes the server monitors: the requested items it accepted.
MonitoredNodes ==
    IF created = None \/ ~created.val.ok THEN {}
    ELSE {items_to_create.val[i].node_id :
             i \in {j \in 1..Len(items_to_create.val) : created.val.val[j] = "Good"}}

RECURSIVE TotalLen(_)
TotalLen(batches) ==
    IF batches = <<>> THEN 0 ELSE Len(Head(batches)) + TotalLen(Tail(batches))

\* A notification carries at least one changed item.
Batches == SeqsUpTo(MonitoredItems(MonitoredNodes), MaxItems - TotalLen(delivered)) \ {<<>>}

\* The run loop hands one notification to the DataChangeCallback registered by
\* create_subscription.  A panic in print_value ends the process.
OnDataChange ==
    /\ pc = "running"
    /\ runState = "Running"
    /\ TotalLen(delivered) < MaxItems
    /\ \E batch \in Batches :
          /\ delivered' = Append(delivered, batch)
          /\ out' = out \o Callback(batch).lines
          /\ IF Callback(batch).panic
             THEN Abort /\ runState' = "Terminated"
             ELSE UNCHANGED <<pc, lockHeld, runState>>
    /\ UNCHANGED <<env, opcua_host, monitored_tags, calls, lockCount,
                   subscription_id, monitored_tags_list, items_to_create, created, result,
                   kafkaVars>>

\* A main that subscribes again when the session has ended.
SessionEndThenResubscribe ==
    /\ pc = "running"
    /\ runState = "Running"
    /\ runState' = "Terminated"
    /\ pc' = "sub_lock"
    /\ UNCHANGED <<env, opcua_host, monitored_tags, out, calls, lockHeld, lockCount,
                   subscription_id, monitored_tags_list, items_to_create, created, result,
                   delivered, kafkaVars>>

\* The session ends (connection drop, server shutdown): Session::run returns and
\* main with it.
SessionEnd ==
    /\ pc = "running"
    /\ runState = "Running"
    /\ runState' = "Terminated"
    /\ pc' = "done"
    /\ UNCHANGED <<env, opcua_host, monitored_tags, out, calls, lockHeld, lockCount,
                   subscription_id, monitored_tags_list, items_to_create, created, result,
                   delivered, kafkaVars>>

Next ==
    \/ ReadServer
    \/ ReadTags
    \/ PrintTags
    \/ BuildClient
    \/ Connect
    \/ SubLock
    \/ CreateSubscription
    \/ ParseAndPrint
    \/ BuildItems
    \/ CreateMonitoredItems
    \/ Branch
    \/ PrintError
    \/ RunStart
    \/ OnDataChange
    \/ SessionEnd

Spec == Init /\ [][Next]_vars

\* -------------------------------------------------- send_kafka, standalone
\* main never calls send_kafka; it is exercised on its own, next to print_value,
\* for an item and a broker drawn from bounded sets.
Brokers == {<<"b", "1">>, <<"b", "2">>}

PlainTags == {Trim(s) : s \in {t \in StringsUpTo(MaxTagLen) : \A i \in 1..Len(t) : t[i] # ","}}

InitKafka ==
    /\ env = [server |-> None, tags |-> None]
    /\ InitMain
    /\ kpc = "print"
    /\ kbroker \in {Some(b) : b \in Brokers}
    /\ kitem \in {Some(i) : i \in MonitoredItems({NodeId(t) : t \in PlainTags})}
    /\ ksent = <<>>

\* print_value(item) on its own
PrintItem ==
    /\ kpc = "print"
    /\ IF PrintValue(kitem.val).panic
       THEN kpc' = "aborted" /\ UNCHANGED out
       ELSE kpc' = "send" /\ out' = Append(out, PrintValue(kitem.val).line)
    /\ UNCHANGED <<env, pc, opcua_host, monitored_tags, calls, lockHeld, lockCount,
                   subscription_id, monitored_tags_list, items_to_create, created, result,
                   runState, delivered, kbroker, kitem, ksent>>

\* send_kafka(broker, item): creating the producer and sending may each fail, and
\* both are unwrapped.
SendKafka ==
    /\ kpc = "send"
    /\ \E producerCreated \in BOOLEAN, acked \in BOOLEAN :
          IF producerCreated /\ acked
          THEN /\ ksent' = Append(ksent, KafkaRecord(kitem.val))
               /\ kpc' = "done"
          ELSE /\ kpc' = "aborted"
               /\ UNCHANGED ksent
    /\ UNCHANGED <<mainVars, kbroker, kitem>>

NextKafka ==
    \/ PrintItem
    \/ SendKafka

SpecKafka == InitKafka /\ [][NextKafka]_vars

\* ======================================================================
\* Properties
\* ======================================================================
Count(q, x) == Cardinality({i \in 1..Len(q) : q[i] = x})

CallsOf(op) == {i \in 1..Len(calls) : calls[i].op = op}

Called(op) == CallsOf(op) # {}

ErrorLine == <<"Error creating subscription">>

SetupFailed == result # None /\ ~result.val.ok

SetupSucceeded == result # None /\ result.val.ok

\* frag occurs in line as a contiguous run of fragments
Contains(line, frag) ==
    \E i \in 0..(Len(line) - Len(frag)) : SubSeq(line, i + 1, i + Len(frag)) = frag

\* The position of the n-th comma of s; 0 before the first, Len(s) + 1 after the last.
CommaCount(s) == Cardinality({i \in 1..Len(s) : s[i] = ","})

CommaAt(s, n) ==
    IF n = 0 THEN 0
    ELSE IF n > CommaCount(s) THEN Len(s) + 1
    ELSE CHOOSE p \in 1..Len(s) :
            s[p] = "," /\ Cardinality({q \in 1..p : s[q] = ","}) = n

\* entry is what is left of s between positions lo and hi (exclusive) when the
\* whitespace at both ends is taken away
IsTrimOf(entry, s, lo, hi) ==
    \E a \in (lo + 1)..hi :
       /\ a + Len(entry) <= hi
       /\ entry = SubSeq(s, a, a + Len(entry) - 1)
       /\ \A i \in (lo + 1)..(a - 1) : s[i] \in Whitespace
       /\ \A i \in (a + Len(entry))..(hi - 1) : s[i] \in Whitespace
       /\ entry # <<>> => entry[1] \notin Whitespace /\ entry[Len(entry)] \notin Whitespace

\* C1: when subscribe_to_values returned an error, main prints "Error creating
\* subscription" exactly once and never calls Session::run; the run loop is
\* called only after subscribe_to_values returned Ok, and then the message is
\* never printed.
C1_FailurePrintedAndNoRun ==
    /\ Count(out, ErrorLine) <= 1
    /\ SetupFailed => ~Called("run") /\ runState = "NotStarted"
    /\ SetupFailed /\ pc = "done" => Count(out, ErrorLine) = 1
    /\ Called("run") => SetupSucceeded /\ Count(out, ErrorLine) = 0
    /\ SetupSucceeded => Count(out, ErrorLine) = 0
    /\ Count(out, ErrorLine) = 1 => SetupFailed

\* C1 witness: create_monitored_items failed, the message is out, no run loop
C1_Witness ==
    /\ pc = "done"
    /\ created # None /\ ~created.val.ok
    /\ SetupFailed
    /\ out[Len(out)] = ErrorLine
    /\ ~Called("run")

ConfigMissing == ~env.server.some \/ ~env.tags.some

\* C2: with OPCUA_SERVER or MONITORED_TAGS absent the program aborts before any
\* network connection: a connect_to_endpoint call is preceded by successful
\* reads of both variables, and after a configuration failure nothing is
\* connected, subscribed, monitored or run.
C2_ConfigBeforeNetwork ==
    /\ Called("connect_to_endpoint") =>
          /\ env.server.some /\ opcua_host = env.server
          /\ env.tags.some /\ monitored_tags = env.tags
    /\ ConfigMissing =>
          /\ calls = <<>>
          /\ runState = "NotStarted"
          /\ lockCount = 0
          /\ pc \in {"start", "read_tags", "aborted"}
          /\ ~env.server.some => pc \in {"start", "aborted"}

\* C2 witness: the server variable was read, the tag list is absent, the process
\* has aborted without a call
C2_Witness ==
    /\ pc = "aborted"
    /\ env.server.some /\ opcua_host = env.server
    /\ ~env.tags.some
    /\ calls = <<>>

\* C3 as claimed: the parsed list has one entry per comma-delimited segment, and
\* every entry is trimmed and non-empty, whatever the input.
C3_EveryEntryNonEmpty ==
    monitored_tags_list # None =>
        /\ Len(monitored_tags_list.val) = CommaCount(monitored_tags.val) + 1
        /\ \A i \in 1..Len(monitored_tags_list.val) : monitored_tags_list.val[i] # <<>>

\* C3 as amended: the parsed list has, in input order, one entry per
\* comma-delimited segment; each entry is its segment without the leading and
\* trailing whitespace; an entry is empty exactly when its segment holds no
\* character other than whitespace, and such entries are kept.
C3_OneTrimmedEntryPerSegment ==
    monitored_tags_list # None =>
        LET s == monitored_tags.val
            l == monitored_tags_list.val
        IN  /\ Len(l) = CommaCount(s) + 1
            /\ \A i \in 1..Len(l) :
                  /\ IsTrimOf(l[i], s, CommaAt(s, i - 1), CommaAt(s, i))
                  /\ l[i] = <<>> <=>
                        \A k \in (CommaAt(s, i - 1) + 1)..(CommaAt(s, i) - 1) : s[k] \in Whitespace

\* C3 witness: "A, " was parsed to ["A", ""]: a whitespace-only segment is kept
\* as an empty entry
C3_Witness ==
    /\ monitored_tags = Some(<<"A", ",", " ">>)
    /\ monitored_tags_list = Some(<< <<"A">>, <<>> >>)

RanDispatch == pc \in {"running", "done", "aborted"} /\ runState # "NotStarted"

\* The lines main and subscribe_to_values wrote before the run loop started: the
\* output up to the parsed tag list.
SetupLines == CHOOSE m \in 1..Len(out) : out[m][1] = "Monitored tags: "

\* Where in out the header of the j-th delivered batch is expected.
HeaderAt(j) == SetupLines + TotalLen(SubSeq(delivered, 1, j - 1)) + j

\* C4: for every delivered batch the output has the header and then one line per
\* item in batch order, with the node identity and the formatted value when the
\* value is present, and the node identity and the status text, without a
\* value, when it is absent.
C4_OneLinePerItem ==
    RanDispatch =>
        /\ Len(out) = SetupLines + Len(delivered) + TotalLen(delivered)
        /\ \A j \in 1..Len(delivered) :
              /\ HeaderAt(j) <= Len(out) /\ out[HeaderAt(j)] = Header
              /\ \A i \in 1..Len(delivered[j]) :
                    LET item == delivered[j][i]
                        at   == HeaderAt(j) + i
                    IN  /\ at <= Len(out)
                        /\ Contains(out[at], FmtNodeId(item.node_id))
                        /\ item.value.some =>
                              Contains(out[at], FmtDebugVariant(item.value.val))
                        /\ ~item.value.some =>
                              /\ item.status.some
                              /\ Contains(out[at], <<item.status.val>>)
                              /\ \A v \in Variants : ~Contains(out[at], FmtDebugVariant(v))

\* C5: a notification never ends the process or the run loop: the callback
\* completes for every item, also for an item without a value (whatever its
\* status), all items of the batch are dispatched and the loop stays Running.
C5_AbsentValueNonFatal ==
    [][delivered' # delivered =>
          /\ pc' = "running"
          /\ runState' = "Running"
          /\ Len(out') = Len(out) + 1 + Len(delivered'[Len(delivered')])]_vars

AllItemsAccepted ==
    /\ created # None
    /\ created.val.ok
    /\ \A i \in 1..Len(items_to_create.val) : created.val.val[i] = "Good"

\* C6: subscribe_to_values returns Ok exactly when the server accepted the
\* subscription and one monitored item per tag, and an error when it rejected
\* the subscription or any item; after a rejected create_subscription,
\* create_monitored_items is not called.
C6_ErrorOnAnyRejection ==
    /\ result # None =>
          (result.val.ok <=> subscription_id # None /\ AllItemsAccepted)
    /\ result # None /\ subscription_id = None => ~Called("create_monitored_items")

\* C7: for an item with a present value, the payload send_kafka hands to the
\* producer is the text print_value wrote for that value.
C7_PayloadIsPrintedText ==
    kpc = "done" /\ kitem.val.value.some =>
        out[Len(out)] = <<"Item \"">> \o FmtNodeId(kitem.val.node_id) \o <<"\", Value = ">>
                        \o ksent[Len(ksent)].value

\* C8: once started, the run loop is Running or Terminated; it only moves from
\* Running to Terminated and never back; after it started nothing is subscribed
\* or created again; the callback runs only while Running.
C8_RunningThenTerminated ==
    [][/\ runState = "Terminated" => runState' = "Terminated"
       /\ runState = "Running" => runState' \in {"Running", "Terminated"}
       /\ runState # "NotStarted" => calls' = calls /\ created' = created /\ lockCount' = lockCount
       /\ delivered' # delivered => runState = "Running"
       /\ runState' = "Running" => pc' = "running"]_vars

\* C8 witness: the run loop dispatched a notification and has terminated
C8_Witness ==
    /\ runState = "Terminated"
    /\ pc = "done"
    /\ delivered # <<>>
    /\ Called("run")

\* C9: setup makes one create_subscription call and then one
\* create_monitored_items call whose request list has the length and order of
\* the parsed tag list, each entry being the node (namespace 2, tag); duplicate
\* and empty tags are passed through.
C9_OneRequestPerTag ==
    /\ Cardinality(CallsOf("create_subscription")) <= 1
    /\ Cardinality(CallsOf("create_monitored_items")) <= 1
    /\ \A c \in CallsOf("create_monitored_items") :
          /\ CallsOf("create_subscription") = {c - 1}
          /\ calls[c].subscription_id = subscription_id.val
          /\ Len(calls[c].items) = CommaCount(monitored_tags.val) + 1
          /\ Len(calls[c].items) = Len(monitored_tags_list.val)
          /\ \A i \in 1..Len(calls[c].items) :
                /\ calls[c].items[i].node_id.namespace = 2
                /\ calls[c].items[i].node_id.identifier = monitored_tags_list.val[i]
    /\ SetupSucceeded => Called("create_monitored_items")

\* C9 witness: the tag list "A,A" was sent as two requests for the same node
C9_Witness ==
    /\ monitored_tags = Some(<<"A", ",", "A">>)
    /\ \E c \in CallsOf("create_monitored_items") :
          /\ Len(calls[c].items) = 2
          /\ calls[c].items[1] = calls[c].items[2]
          /\ calls[c].items[1].node_id.identifier = <<"A">>

\* C10: the write lock is taken once, is held across create_subscription and
\* create_monitored_items, and is released on every return of
\* subscribe_to_values; the run loop is not started, and the callback does not
\* run, while the guard is held.
C10_GuardHeldOnlyDuringSetup ==
    /\ lockCount <= 1
    /\ pc \in {"sub_create", "sub_parse", "sub_build", "sub_items"} => lockHeld /\ lockCount = 1
    /\ Called("create_subscription") => lockCount = 1
    /\ pc \in {"branch", "run", "print_err", "running", "done"} => ~lockHeld /\ lockCount = 1
    /\ Called("run") => ~lockHeld
    /\ delivered # <<>> => ~lockHeld
    /\ lockHeld => ~Called("run") /\ result = None

\* C10 witness: create_subscription was rejected, subscribe_to_values has
\* returned by `?` and the guard is gone
C10_Witness ==
    /\ pc = "branch"
    /\ SetupFailed
    /\ subscription_id = None
    /\ lockCount = 1
    /\ ~lockHeld

====
